---- MODULE Spec2Model ----
(***************************************************************************)
(* Ledger-and-categorization engine of finance_app: the import adapter,    *)
(* the rules engine, the double-entry posting generator and the reports,   *)
(* over the store of accounts, categories, transactions, postings, rules   *)
(* and period closures, and the table of the transactions view.            *)
(*                                                                         *)
(* Conventions.  Money is an integer number of cents (Numeric(14, 2)).     *)
(* A primary key is the row's position in its table (autoincrement, rows   *)
(* are never deleted from accounts, categories, transactions or rules).    *)
(* A NULL foreign key is 0; an optional number is <<>> (NULL) or <<v>>.    *)
(* The postings table is a bag of rows without their surrogate key, which  *)
(* nothing in the program reads.  Text that is searched is a sequence of   *)
(* characters; names that are only compared are strings.                   *)
(***************************************************************************)
EXTENDS Integers, Sequences, FiniteSets, Bags, TLC

VARIABLES accounts, categories, transactions, postings, rules,
          period_closures, table, _pending_category_updates

\* the tables of the store
store_vars == <<accounts, categories, transactions, postings, rules, period_closures>>

\* TransactionsView: the ids of the transactions its table shows, row by
\* row, and the category edits that are not saved yet
view_vars == <<table, _pending_category_updates>>

vars == <<accounts, categories, transactions, postings, rules,
          period_closures, table, _pending_category_updates>>

----------------------------------------------------------------------------
(* Bounds of the model. *)

\* most transactions the store holds
MaxTxns == 2
\* most rules the store holds
MaxRules == 2
\* longest description and pattern of the match-predicate specification
MaxLen == 2

----------------------------------------------------------------------------
(* Generic helpers. *)

Range(s) == {s[i] : i \in DOMAIN s}

\* all orderings (sequences without repetition) of the finite set S
Orderings(S) ==
    {s \in [1..Cardinality(S) -> S] : \A i, j \in DOMAIN s : i # j => s[i] # s[j]}

Abs(n) == IF n < 0 THEN -n ELSE n

Min(a, b) == IF a < b THEN a ELSE b

\* session.query(Account).filter_by(name=...).first(): the id of an account
\* with that name, 0 (None) when there is none
AccountByName(accts, name) ==
    IF \E i \in DOMAIN accts : accts[i].name = name
    THEN CHOOSE i \in DOMAIN accts : accts[i].name = name
            /\ \A j \in DOMAIN accts : accts[j].name = name => i <= j
    ELSE 0

CategoryByName(cats, name) ==
    IF \E i \in DOMAIN cats : cats[i].name = name
    THEN CHOOSE i \in DOMAIN cats : cats[i].name = name
            /\ \A j \in DOMAIN cats : cats[j].name = name => i <= j
    ELSE 0

----------------------------------------------------------------------------
(* db/init_db.py: the store after init_db() and seed_minimal(). *)

SeedAccounts ==
    << [name |-> "Checking",  type |-> "asset"],
       [name |-> "Savings",   type |-> "asset"],
       [name |-> "Income",    type |-> "income"],
       [name |-> "Expenses",  type |-> "expense"],
       [name |-> "Transfers", type |-> "equity"] >>

SeedCategories == <<"Groceries", "Rent", "Utilities", "Dining", "Salary", "Misc">>

RECURSIVE seed_accounts(_, _)
seed_accounts(accts, todo) ==
    IF todo = <<>> THEN accts
    ELSE seed_accounts(
            IF AccountByName(accts, Head(todo).name) = 0
            THEN Append(accts, Head(todo)) ELSE accts,
            Tail(todo))

RECURSIVE seed_categories(_, _)
seed_categories(cats, todo) ==
    IF todo = <<>> THEN cats
    ELSE seed_categories(
            IF CategoryByName(cats, Head(todo)) = 0
            THEN Append(cats, [name |-> Head(todo)]) ELSE cats,
            Tail(todo))

\* seed_minimal(session): adds the accounts and categories that are missing
seed_minimal(store) ==
    [store EXCEPT !.accounts = seed_accounts(store.accounts, SeedAccounts),
                  !.categories = seed_categories(store.categories, SeedCategories)]

\* init_db(): every table exists and is empty
EmptyStore ==
    [accounts |-> <<>>, categories |-> <<>>, transactions |-> <<>>,
     postings |-> EmptyBag, rules |-> <<>>, period_closures |-> <<>>]

\* TransactionsView.__init__ on a store without transactions: an empty
\* table and no pending edit
InitView ==
    /\ table = <<>>
    /\ _pending_category_updates = <<>>

\* main(): init_db(), then seed_minimal(), then the main window
Init ==
    LET s == seed_minimal(EmptyStore) IN
    /\ accounts = s.accounts
    /\ categories = s.categories
    /\ transactions = s.transactions
    /\ postings = s.postings
    /\ rules = s.rules
    /\ period_closures = s.period_closures
    /\ InitView

----------------------------------------------------------------------------
(* services/importer.py *)

\* A date cell of the source file: its numeric fields and the separator
\* between them, e.g. "2024-03-05" is [sep |-> "-", f |-> <<2024, 3, 5>>].
\* A calendar date is <<year, month, day>>.
SUPPORTED_DATE_FORMATS == <<"%Y-%m-%d", "%m/%d/%Y">>

IsLeap(y) == (y % 4 = 0 /\ y % 100 # 0) \/ y % 400 = 0

DaysIn(y, m) ==
    IF m = 2 THEN (IF IsLeap(y) THEN 29 ELSE 28)
    ELSE IF m \in {4, 6, 9, 11} THEN 30 ELSE 31

ValidDate(y, m, d) ==
    /\ y \in 1..9999
    /\ m \in 1..12
    /\ d \in 1..DaysIn(y, m)

\* datetime.strptime(text, fmt).date(): <<date>>, or <<>> for a ValueError
strptime(text, fmt) ==
    IF fmt = "%Y-%m-%d"
    THEN IF text.sep = "-" /\ Len(text.f) = 3
            /\ ValidDate(text.f[1], text.f[2], text.f[3])
         THEN << <<text.f[1], text.f[2], text.f[3]>> >> ELSE <<>>
    ELSE IF text.sep = "/" /\ Len(text.f) = 3
            /\ ValidDate(text.f[3], text.f[1], text.f[2])
         THEN << <<text.f[3], text.f[1], text.f[2]>> >> ELSE <<>>

\* parse_date(value): the first format that parses wins; <<>> when none
\* does (the ValueError the caller catches)
RECURSIVE parse_date_from(_, _)
parse_date_from(value, k) ==
    IF k > Len(SUPPORTED_DATE_FORMATS) THEN <<>>
    ELSE IF strptime(value, SUPPORTED_DATE_FORMATS[k]) # <<>>
         THEN strptime(value, SUPPORTED_DATE_FORMATS[k])
         ELSE parse_date_from(value, k + 1)

\* a parse that takes any three numbers for a date
parse_date_lenient(value) == << <<value.f[1], value.f[2], value.f[3]>> >>

parse_date(value) == parse_date_from(value, 1)

\* the loop that leaves out a row the store already holds
RECURSIVE import_rows_dedup(_, _, _, _)
import_rows_dedup(rows, account_id, txns, created) ==
    IF rows = <<>> THEN [ok |-> TRUE, transactions |-> txns, created |-> created]
    ELSE LET row == Head(rows)
             dt == parse_date(row.date)
         IN IF dt = <<>>
            THEN import_rows_dedup(Tail(rows), account_id, txns, created)
            ELSE IF ~row.amount.num
            THEN [ok |-> FALSE, transactions |-> txns, created |-> created]
            ELSE IF \E i \in DOMAIN txns :
                        /\ txns[i].date = dt[1]
                        /\ txns[i].description = row.description
                        /\ txns[i].amount = row.amount.cents
                        /\ txns[i].source_account_id = account_id
            THEN import_rows_dedup(Tail(rows), account_id, txns, created)
            ELSE import_rows_dedup(Tail(rows), account_id,
                    Append(txns, [date |-> dt[1],
                                  description |-> row.description,
                                  amount |-> row.amount.cents,
                                  source_account_id |-> account_id,
                                  category_id |-> 0]),
                    created + 1)

\* the import that files every new transaction under the first category
RECURSIVE import_rows_categorized(_, _, _, _)
import_rows_categorized(rows, account_id, txns, created) ==
    IF rows = <<>> THEN [ok |-> TRUE, transactions |-> txns, created |-> created]
    ELSE LET row == Head(rows)
             dt == parse_date(row.date)
         IN IF dt = <<>>
            THEN import_rows_categorized(Tail(rows), account_id, txns, created)
            ELSE IF ~row.amount.num
            THEN [ok |-> FALSE, transactions |-> txns, created |-> created]
            ELSE import_rows_categorized(Tail(rows), account_id,
                    Append(txns, [date |-> dt[1],
                                  description |-> row.description,
                                  amount |-> row.amount.cents,
                                  source_account_id |-> account_id,
                                  category_id |-> 1]),
                    created + 1)

\* import_transactions, the loop over the rows: [ok, txns, created];
\* ok = FALSE is the ValueError of float() on a cell that is not a number
RECURSIVE import_rows(_, _, _, _)
import_rows(rows, account_id, txns, created) ==
    IF rows = <<>> THEN [ok |-> TRUE, transactions |-> txns, created |-> created]
    ELSE LET row == Head(rows)
             dt == parse_date(row.date)
         IN IF dt = <<>>
            THEN import_rows(Tail(rows), account_id, txns, created)
            ELSE IF ~row.amount.num
            THEN [ok |-> FALSE, transactions |-> txns, created |-> created]
            ELSE import_rows(Tail(rows), account_id,
                    Append(txns, [date |-> dt[1],
                                  description |-> row.description,
                                  amount |-> row.amount.cents,
                                  source_account_id |-> account_id,
                                  category_id |-> 0]),
                    created + 1)

\* the import that adds the source account without the lookup by name
import_transactions_create(store, rows, source_account_name) ==
    LET accts == Append(store.accounts,
                        [name |-> source_account_name, type |-> "asset"])
        r == import_rows(rows, Len(accts), store.transactions, 0)
    IN [ok |-> r.ok,
        store |-> [store EXCEPT !.accounts = accts,
                                !.transactions = r.transactions],
        ret |-> r.created]

\* import_transactions(session, csv_path, mapping): the session's view of the
\* store after the call and the value returned
import_transactions(store, rows, source_account_name) ==
    LET found == AccountByName(store.accounts, source_account_name)
        accts == IF found = 0
                 THEN Append(store.accounts,
                             [name |-> source_account_name, type |-> "asset"])
                 ELSE store.accounts
        account_id == IF found = 0 THEN Len(accts) ELSE found
        r == import_rows(rows, account_id, store.transactions, 0)
    IN [ok |-> r.ok,
        store |-> [store EXCEPT !.accounts = accts,
                                !.transactions = r.transactions],
        ret |-> r.created]

----------------------------------------------------------------------------
(* db/context.py *)

\* the store as one record
Store ==
    [accounts |-> accounts, categories |-> categories,
     transactions |-> transactions, postings |-> postings, rules |-> rules,
     period_closures |-> period_closures]

\* CheckConstraint("(debit >= 0) AND (credit >= 0)") of the postings table
ck_postings_non_negative(posts) ==
    \A p \in DOMAIN posts : p.debit >= 0 /\ p.credit >= 0

\* unique=True of Account.name and of Category.name
UniqueNames(named) ==
    \A i, j \in DOMAIN named : named[i].name = named[j].name => i = j

\* UniqueConstraint("period_start", "period_end", name="uq_period")
uq_period(closures) ==
    \A i, j \in DOMAIN closures :
        (/\ closures[i].period_start = closures[j].period_start
         /\ closures[i].period_end = closures[j].period_end) => i = j

\* the store accepts the written rows: a violated constraint is the
\* IntegrityError raised by the flush
StoreAccepts(store) ==
    /\ ck_postings_non_negative(store.postings)
    /\ UniqueNames(store.accounts)
    /\ UniqueNames(store.categories)
    /\ uq_period(store.period_closures)

\* a commit also after an exception
commit_always(result) == result.store

\* a rollback that keeps the rows the body had flushed (the accounts)
rollback_keeps_flushed(result) ==
    IF result.ok /\ StoreAccepts(result.store) THEN result.store
    ELSE [Store EXCEPT !.accounts = result.store.accounts]

\* the try / except of session_scope: the committed store after the unit of
\* work.  session.commit() when the body and the flush of the commit end
\* without an exception, session.rollback() (the store as it was) otherwise
commit_or_rollback(result) ==
    IF result.ok /\ StoreAccepts(result.store) THEN result.store ELSE Store

\* the exception the caller of session_scope sees: the body's, or the
\* IntegrityError of the commit
Raises(result) == ~(result.ok /\ StoreAccepts(result.store))

\* session_scope(): one unit of work.  The body runs once: `done` is what
\* it left in the session, s the store after the commit or the rollback.
session_scope(result) ==
    \E done \in {result} :
    \E s \in {commit_or_rollback(done)} :
    /\ accounts' = s.accounts
    /\ categories' = s.categories
    /\ transactions' = s.transactions
    /\ postings' = s.postings
    /\ rules' = s.rules
    /\ period_closures' = s.period_closures
    /\ UNCHANGED view_vars

----------------------------------------------------------------------------
(* Source files and mappings the import is run on. *)

IsoDate(y, m, d) == [sep |-> "-", f |-> <<y, m, d>>]
UsDate(m, d, y) == [sep |-> "/", f |-> <<m, d, y>>]
Number(c) == [num |-> TRUE, cents |-> c]
NotANumber == [num |-> FALSE, cents |-> 0]

RowWalmart ==
    [date |-> IsoDate(2024, 3, 5), description |-> <<"W", "a">>,
     amount |-> Number(-4250)]
RowZero ==
    [date |-> UsDate(3, 5, 2024), description |-> <<"r">>, amount |-> Number(0)]
RowSalary ==
    [date |-> IsoDate(2024, 4, 1), description |-> <<"r">>,
     amount |-> Number(100000)]
RowBadDate ==
    [date |-> IsoDate(2024, 13, 5), description |-> <<"W", "a">>,
     amount |-> Number(500)]
RowBadAmount ==
    [date |-> IsoDate(2024, 3, 5), description |-> <<"r">>, amount |-> NotANumber]

\* the source files: single rows, the three-row source with one row whose
\* date does not parse, and a source whose second row has a bad amount
CsvFiles ==
    { <<RowWalmart>>, <<RowZero>>, <<RowSalary>>,
      <<RowWalmart, RowBadDate, RowZero>>,
      <<RowSalary, RowBadAmount>> }

\* the imports that are run: every source file into "Checking", the outflow
\* row into a source account that is named like a category account, and the
\* source with the bad amount into an account that does not exist yet
ImportJobs ==
    {<<rows, "Checking">> : rows \in CsvFiles}
    \cup {<<(<<RowWalmart>>), "Expense:Groceries">>}
    \cup {<<(<<RowSalary, RowBadAmount>>), "Visa">>}

\* ImportWizard.do_import: one unit of work around import_transactions
Import(rows, source_account_name) ==
    LET r == import_transactions(Store, rows, source_account_name) IN
    /\ Len(r.store.transactions) <= MaxTxns
    /\ session_scope(r)


----------------------------------------------------------------------------
(* services/rules_engine.py *)

\* str.lower() of one character, as re.IGNORECASE folds it
Lower(c) ==
    CASE c = "W" -> "w"
      [] c = "A" -> "a"
      [] c = "R" -> "r"
      [] OTHER -> c

\* the pattern matches the text at offset i (0-based); the patterns of the
\* model are literal characters, for which a regular expression matches
\* exactly its own text
RECURSIVE MatchAt(_, _, _, _)
MatchAt(pattern, text, i, k) ==
    IF k > Len(pattern) THEN TRUE
    ELSE IF i + k > Len(text) THEN FALSE
    ELSE IF Lower(text[i + k]) # Lower(pattern[k]) THEN FALSE
    ELSE MatchAt(pattern, text, i, k + 1)

\* re.search(pattern, text, flags=re.IGNORECASE) is not None: the scan over
\* the start offsets, leftmost first
RECURSIVE SearchFrom(_, _, _)
SearchFrom(pattern, text, i) ==
    IF i > Len(text) THEN FALSE
    ELSE IF MatchAt(pattern, text, i, 1) THEN TRUE
    ELSE SearchFrom(pattern, text, i + 1)

re_search(pattern, text) == SearchFrom(pattern, text, 0)

\* the lower bound taken as exclusive
_rule_matches_exclusive(rule, description, amount) ==
    IF ~rule.active THEN FALSE
    ELSE IF ~re_search(rule.pattern, description) THEN FALSE
    ELSE IF rule.amount_min # <<>> /\ amount <= rule.amount_min[1] THEN FALSE
    ELSE IF rule.amount_max # <<>> /\ amount > rule.amount_max[1] THEN FALSE
    ELSE TRUE

_rule_matches(rule, description, amount) ==
    IF ~rule.active THEN FALSE
    ELSE IF ~re_search(rule.pattern, description) THEN FALSE
    ELSE IF rule.amount_min # <<>> /\ amount < rule.amount_min[1] THEN FALSE
    ELSE IF rule.amount_max # <<>> /\ amount > rule.amount_max[1] THEN FALSE
    ELSE TRUE

\* date comparison of two calendar dates <<y, m, d>>
DateLE(a, b) ==
    \/ a[1] < b[1]
    \/ a[1] = b[1] /\ a[2] < b[2]
    \/ a[1] = b[1] /\ a[2] = b[2] /\ a[3] <= b[3]

\* the rule query without its ORDER BY
ActiveRulesUnordered(rls) == Orderings({i \in DOMAIN rls : rls[i].active})

\* query(Rule).filter(Rule.active.is_(True)).order_by(Rule.priority.asc()):
\* every result the query can give.  ORDER BY fixes the order of two rows
\* only when their priorities differ.
ActiveRulesByPriority(rls) ==
    {o \in Orderings({i \in DOMAIN rls : rls[i].active}) :
        \A i, j \in DOMAIN o : i < j => rls[o[i]].priority <= rls[o[j]].priority}

\* the transaction query without its filter on the category
AllByDateAsc(txns) ==
    {o \in Orderings(DOMAIN txns) :
        \A i, j \in DOMAIN o : i < j => DateLE(txns[o[i]].date, txns[o[j]].date)}

\* query(Transaction).filter(category_id IS NULL).order_by(date.asc())
UncategorizedByDateAsc(txns) ==
    {o \in Orderings({i \in DOMAIN txns : txns[i].category_id = 0}) :
        \A i, j \in DOMAIN o : i < j => DateLE(txns[o[i]].date, txns[o[j]].date)}

\* query(Transaction).filter(category_id IS NULL).order_by(date.desc())
UncategorizedByDateDesc(txns) ==
    {o \in Orderings({i \in DOMAIN txns : txns[i].category_id = 0}) :
        \A i, j \in DOMAIN o : i < j => DateLE(txns[o[j]].date, txns[o[i]].date)}

\* the inner loop "for rule in rules: if _rule_matches(...): ... break":
\* the id of the first rule of rule_order that matches, 0 when none does
RECURSIVE first_match(_, _, _)
first_match(rls, rule_order, txn) ==
    IF rule_order = <<>> THEN 0
    ELSE IF _rule_matches(rls[Head(rule_order)], txn.description, txn.amount)
         THEN Head(rule_order)
         ELSE first_match(rls, Tail(rule_order), txn)

\* dry_run_matches, the loop over the transactions
RECURSIVE dry_run_loop(_, _, _, _, _)
dry_run_loop(txns, rls, txn_order, rule_order, results) ==
    IF txn_order = <<>> THEN results
    ELSE LET t == Head(txn_order)
             r == first_match(rls, rule_order, txns[t])
         IN dry_run_loop(txns, rls, Tail(txn_order), rule_order,
                IF r = 0 THEN results
                ELSE Append(results, [transaction_id |-> t, rule_id |-> r,
                                      category_id |-> rls[r].category_id]))

\* dry_run_matches(session, limit), for one result txn_query of the
\* transaction query (before its LIMIT) and one result rule_order of the
\* rule query: the list of RuleMatch
dry_run_matches(store, limit, txn_query, rule_order) ==
    dry_run_loop(store.transactions, store.rules,
                 SubSeq(txn_query, 1, Min(limit, Len(txn_query))),
                 rule_order, <<>>)

\* apply_rules, the loop over the transactions: [transactions, updated]
RECURSIVE apply_loop(_, _, _, _, _)
apply_loop(txns, rls, txn_order, rule_order, updated) ==
    IF txn_order = <<>> THEN [transactions |-> txns, updated |-> updated]
    ELSE LET t == Head(txn_order)
             r == first_match(rls, rule_order, txns[t])
         IN IF r = 0
            THEN apply_loop(txns, rls, Tail(txn_order), rule_order, updated)
            ELSE apply_loop([txns EXCEPT ![t].category_id = rls[r].category_id],
                            rls, Tail(txn_order), rule_order, updated + 1)

\* the stream that ends after its first batch
yield_first_batch(txn_query, batch_size) ==
    IF txn_query = <<>> THEN <<>>
    ELSE << SubSeq(txn_query, 1, Min(batch_size, Len(txn_query))) >>

\* q.yield_per(batch_size): the rows of the query, fetched batch_size at a
\* time.  Nothing is written to the database while the rows are fetched
\* (autoflush is off and the loop only sets attributes), so the batches are
\* consecutive parts of one result of the query.
RECURSIVE yield_per(_, _)
yield_per(txn_query, batch_size) ==
    IF txn_query = <<>> THEN <<>>
    ELSE LET n == Min(batch_size, Len(txn_query))
         IN << SubSeq(txn_query, 1, n) >>
            \o yield_per(SubSeq(txn_query, n + 1, Len(txn_query)), batch_size)

\* the loop of apply_rules over the batches it is handed:
\* [transactions, updated]
RECURSIVE apply_batches(_, _, _, _, _)
apply_batches(txns, rls, batches, rule_order, updated) ==
    IF batches = <<>> THEN [transactions |-> txns, updated |-> updated]
    ELSE LET r == apply_loop(txns, rls, Head(batches), rule_order, updated)
         IN apply_batches(r.transactions, rls, Tail(batches), rule_order, r.updated)

\* apply_rules(session, batch_size), for one result of each of its two
\* queries
apply_rules_yield_per(store, batch_size, txn_query, rule_order) ==
    LET r == apply_batches(store.transactions, store.rules,
                           yield_per(txn_query, batch_size), rule_order, 0)
    IN [ok |-> TRUE,
        store |-> [store EXCEPT !.transactions = r.transactions],
        ret |-> r.updated]

\* batch_size: int = 1000
BATCH_SIZE == 1000

\* apply_rules(session), as RulesView.apply calls it
apply_rules(store, txn_query, rule_order) ==
    apply_rules_yield_per(store, BATCH_SIZE, txn_query, rule_order)

\* RulesView.apply: one unit of work around apply_rules
ApplyRules ==
    \E rule_order \in ActiveRulesByPriority(rules) :
    \E txn_query \in UncategorizedByDateAsc(transactions) :
        session_scope(apply_rules(Store, txn_query, rule_order))

\* a rule as the user authors it (models.Rule)
Rule(pattern, category_id, amount_min, amount_max, priority, active) ==
    [pattern |-> pattern, category_id |-> category_id,
     amount_min |-> amount_min, amount_max |-> amount_max,
     priority |-> priority, active |-> active]

\* one unit of work that adds the rule r; the user authors a rule once
AuthorRule(r) ==
    /\ Len(rules) < MaxRules
    /\ r \notin Range(rules)
    /\ r.category_id \in DOMAIN categories
    /\ rules' = Append(rules, r)
    /\ UNCHANGED <<accounts, categories, transactions, postings, period_closures>>
    /\ UNCHANGED view_vars


----------------------------------------------------------------------------
(* services/posting_generator.py *)

\* the rows of the postings table that belong to transaction t
PostingsOf(posts, t) ==
    [p \in {q \in DOMAIN posts : q.transaction_id = t} |-> posts[p]]

\* the delete that removes nothing: the new postings are appended
DeletePostingsKeep(posts, t) == posts

\* the delete that removes only the credit rows of the transaction
DeletePostingsCredits(posts, t) ==
    [p \in {q \in DOMAIN posts : q.transaction_id # t \/ q.credit = 0} |-> posts[p]]

\* query(Posting).filter(Posting.transaction_id == t).delete()
DeletePostings(posts, t) ==
    [p \in {q \in DOMAIN posts : q.transaction_id # t} |-> posts[p]]

\* both amounts booked as a debit
PostingDebitOnly(transaction_id, account_id, debit, credit) ==
    [transaction_id |-> transaction_id, account_id |-> account_id,
     debit |-> debit + credit, credit |-> 0]

\* debit and credit exchanged
PostingSwapped(transaction_id, account_id, debit, credit) ==
    [transaction_id |-> transaction_id, account_id |-> account_id,
     debit |-> credit, credit |-> debit]

\* m.Posting(transaction_id=..., account_id=..., debit=..., credit=...)
Posting(transaction_id, account_id, debit, credit) ==
    [transaction_id |-> transaction_id, account_id |-> account_id,
     debit |-> debit, credit |-> credit]

\* create without the lookup by name
CategoryAccountCreate(accts, cats, category_id, prefix, typ) ==
    [accounts |-> Append(accts, [name |-> prefix \o ":" \o cats[category_id].name,
                                 type |-> typ]),
     id |-> Len(accts) + 1]

\* the counterpart account of a categorized transaction: the account named
\* prefix:category, created with the type typ when no account has that name.
\* [accounts, id]
CategoryAccount(accts, cats, category_id, prefix, typ) ==
    LET name == prefix \o ":" \o cats[category_id].name
        found == AccountByName(accts, name)
    IN IF found # 0
       THEN [accounts |-> accts, id |-> found]
       ELSE [accounts |-> Append(accts, [name |-> name, type |-> typ]),
             id |-> Len(accts) + 1]

\* the fallback account created when it is missing
FallbackAccountCreate(accts, name) ==
    IF AccountByName(accts, name) # 0
    THEN [accounts |-> accts, id |-> AccountByName(accts, name)]
    ELSE [accounts |-> Append(accts, [name |-> name, type |-> "expense"]),
          id |-> Len(accts) + 1]

\* the counterpart account of an uncategorized transaction: the account with
\* that name, id 0 (None) when there is none
FallbackAccount(accts, name) ==
    [accounts |-> accts, id |-> AccountByName(accts, name)]

\* generate_postings_for_transaction(session, transaction) for the
\* transaction with id t; ok = FALSE is the AttributeError of None.id
generate_postings_for_transaction(store, t) ==
    LET txn == store.transactions[t]
        cleared == DeletePostings(store.postings, t)
        counterpart ==
            IF txn.amount < 0
            THEN IF txn.category_id # 0
                 THEN CategoryAccount(store.accounts, store.categories,
                                      txn.category_id, "Expense", "expense")
                 ELSE FallbackAccount(store.accounts, "Expenses")
            ELSE IF txn.category_id # 0
                 THEN CategoryAccount(store.accounts, store.categories,
                                      txn.category_id, "Income", "income")
                 ELSE FallbackAccount(store.accounts, "Income")
        posting1 ==
            IF txn.amount < 0
            THEN Posting(t, txn.source_account_id, 0, Abs(txn.amount))
            ELSE Posting(t, txn.source_account_id, Abs(txn.amount), 0)
        posting2 ==
            IF txn.amount < 0
            THEN Posting(t, counterpart.id, Abs(txn.amount), 0)
            ELSE Posting(t, counterpart.id, 0, Abs(txn.amount))
    IN IF counterpart.id = 0
       THEN [ok |-> FALSE,
             store |-> [store EXCEPT !.postings = cleared],
             ret |-> 0]
       ELSE [ok |-> TRUE,
             store |-> [store EXCEPT
                          !.accounts = counterpart.accounts,
                          !.postings = cleared (+) SetToBag({posting1})
                                               (+) SetToBag({posting2})],
             ret |-> 2]

\* the query without its filter on the postings
UnpostedUnfiltered(store) == Orderings(DOMAIN store.transactions)

\* the transactions without postings, in every order the query (which has
\* no ORDER BY) can return them
Unposted(store) ==
    Orderings({t \in DOMAIN store.transactions :
                 PostingsOf(store.postings, t) = EmptyBag})

\* generate_all_postings, the loop over the transactions
RECURSIVE generate_loop(_, _, _)
generate_loop(store, todo, count) ==
    IF todo = <<>> THEN [ok |-> TRUE, store |-> store, ret |-> count]
    ELSE LET r == generate_postings_for_transaction(store, Head(todo))
         IN IF ~r.ok THEN [ok |-> FALSE, store |-> r.store, ret |-> count]
            ELSE generate_loop(r.store, Tail(todo), count + 1)

\* the batch whose LIMIT is applied to the transactions table, before the
\* transactions that have postings are left out
generate_all_postings_limit_first(store, limit, query) ==
    LET Within(t) == t <= limit IN
    generate_loop(store, SelectSeq(query, Within), 0)

\* generate_all_postings(session, limit), for one result of its query
\* (before the LIMIT)
generate_all_postings(store, limit, query) ==
    generate_loop(store, SubSeq(query, 1, Min(limit, Len(query))), 0)

\* limit: int = 10000
DEFAULT_LIMIT == 10000

Limits == {1, DEFAULT_LIMIT}

\* ReportsView.generate_postings: one unit of work around
\* generate_all_postings
GeneratePostings(limit) ==
    \E query \in Unposted(Store) :
        session_scope(generate_all_postings(Store, limit, query))

\* one unit of work around generate_postings_for_transaction
GenerateOne(t) ==
    /\ t \in DOMAIN transactions
    /\ session_scope(generate_postings_for_transaction(Store, t))

----------------------------------------------------------------------------
(* views/transactions.py *)

\* .limit(500)
VIEW_LIMIT == 500

\* query(Transaction.id).order_by(Transaction.date.desc()).limit(500)
TransactionsByDateDesc(txns) ==
    {SubSeq(o, 1, Min(VIEW_LIMIT, Len(o))) :
        o \in {q \in Orderings(DOMAIN txns) :
                 \A i, j \in DOMAIN q : i < j =>
                     DateLE(txns[q[j]].date, txns[q[i]].date)}}

\* save_changes, the loop over the pending (row, category_id) edits
RECURSIVE save_loop(_, _, _)
save_loop(txns, id_by_row, pending) ==
    IF pending = <<>> THEN txns
    ELSE LET row_idx == Head(pending)[1]
             data == Head(pending)[2]
         IN IF 0 <= row_idx /\ row_idx < Len(id_by_row)
            THEN save_loop(
                    [txns EXCEPT ![id_by_row[row_idx + 1]].category_id =
                        IF data > 0 THEN data ELSE 0],
                    id_by_row, Tail(pending))
            ELSE save_loop(txns, id_by_row, Tail(pending))

\* the category data of the combo box entries an edit picks: -1 is the
\* empty entry
ComboData == {-1, 1}

\* TransactionsView.save_changes with the pending edits `pending`
SaveChanges(pending) ==
    /\ pending # <<>>
    /\ \E id_by_row \in TransactionsByDateDesc(transactions) :
          transactions' = save_loop(transactions, id_by_row, pending)
    /\ UNCHANGED <<accounts, categories, postings, rules, period_closures>>
    /\ UNCHANGED view_vars


\* TransactionsView.refresh: the table shows the result of the query, row by
\* row; the pending edits are kept
refresh ==
    /\ \E rows \in TransactionsByDateDesc(transactions) : table' = rows
    /\ UNCHANGED _pending_category_updates
    /\ UNCHANGED store_vars

\* TransactionsView._on_category_changed(row, widget): the user picks the
\* entry with the data `data` in the combo box of the row.  The pending edit
\* is (row, category_id); its third component, the transaction the row shows
\* when the edit is made, is history that the code does not keep.
_on_category_changed(row, data) ==
    /\ row < Len(table)
    /\ Len(_pending_category_updates) < MaxTxns
    /\ _pending_category_updates' =
          Append(_pending_category_updates, <<row, data, table[row + 1]>>)
    /\ UNCHANGED table
    /\ UNCHANGED store_vars

\* TransactionsView.save_changes: the pending edits are written in one unit
\* of work, then the list is cleared and the table refreshed
save_changes ==
    /\ _pending_category_updates # <<>>
    /\ \E id_by_row \in TransactionsByDateDesc(transactions) :
          transactions' = save_loop(transactions, id_by_row, _pending_category_updates)
    /\ _pending_category_updates' = <<>>
    /\ \E rows \in TransactionsByDateDesc(transactions') : table' = rows
    /\ UNCHANGED <<accounts, categories, postings, rules, period_closures>>

----------------------------------------------------------------------------
(* services/reports.py *)

\* the sum of f[x] over the x of the finite set S
RECURSIVE Sum(_, _)
Sum(f, S) ==
    IF S = {} THEN 0
    ELSE LET x == CHOOSE y \in S : TRUE IN f[x] + Sum(f, S \ {x})

\* the date filter with the end date left out
DateBetweenExclusive(d, start, end) == DateLE(start, d) /\ DateLE(d, end) /\ d # end

\* Transaction.date.between(start, end)
DateBetween(d, start, end) == DateLE(start, d) /\ DateLE(d, end)

\* date.isoformat(): the text "YYYY-MM-DD" of the date
isoformat(d) == IsoDate(d[1], d[2], d[3])

\* get_cashflow_by_month(session, start_date, end_date).  func.case is the
\* generator of a plain SQL function named "case", not the case() construct:
\* it takes no else_ keyword, so building the query raises TypeError before
\* anything is read.
get_cashflow_by_month(store, start_date, end_date) ==
    [ok |-> FALSE, store |-> store, ret |-> {}]

\* get_category_breakdown(session, start_date, end_date): every list the
\* query can give.  The rows are the categories of the outflows dated in
\* the range, with the sum of their absolute amounts, the greatest sum
\* first; ORDER BY fixes the order of two rows only when their sums differ.
get_category_breakdown(store, start_date, end_date) ==
    LET txns == store.transactions
        expenses == {t \in DOMAIN txns :
                        /\ txns[t].category_id # 0
                        /\ DateBetween(txns[t].date, start_date, end_date)
                        /\ txns[t].amount < 0}
        groups == {store.categories[txns[t].category_id].name : t \in expenses}
        amount(name) ==
            LET members == {t \in expenses :
                              store.categories[txns[t].category_id].name = name}
            IN Sum([t \in members |-> Abs(txns[t].amount)], members)
    IN [ok |-> TRUE, store |-> store,
        ret |-> {[i \in DOMAIN o |-> [category |-> o[i], amount |-> amount(o[i])]] :
                   o \in {q \in Orderings(groups) :
                            \A i, j \in DOMAIN q :
                                i < j => amount(q[i]) >= amount(q[j])}}]

\* get_uncategorized_count(session)
get_uncategorized_count(store) ==
    [ok |-> TRUE, store |-> store,
     ret |-> Cardinality({t \in DOMAIN store.transactions :
                            store.transactions[t].category_id = 0})]

\* the sum of a column (debit or credit) over the rows of a bag of postings
SumColumn(posts, column) ==
    Sum([q \in DOMAIN posts |-> q[column] * posts[q]], DOMAIN posts)

\* the groups of an outer join: every account
JoinedAccountsOuter(store) == {store.accounts[a].name : a \in DOMAIN store.accounts}

\* the groups of query(Account.name, ...).join(Posting, ...).group_by(
\* Account.name): the names of the accounts that a posting refers to
JoinedAccounts(store) ==
    {store.accounts[q.account_id].name : q \in DOMAIN store.postings}

\* get_account_balances(session): every list the query, which has no
\* ORDER BY, can give
get_account_balances(store) ==
    LET rows(name) ==
            [q \in {x \in DOMAIN store.postings :
                       store.accounts[x.account_id].name = name}
                |-> store.postings[q]]
        balance(name) ==
            SumColumn(rows(name), "debit") - SumColumn(rows(name), "credit")
    IN [ok |-> TRUE, store |-> store,
        ret |-> {[i \in DOMAIN o |-> [account |-> o[i], balance |-> balance(o[i])]] :
                   o \in Orderings(JoinedAccounts(store))}]

\* get_reconciliation_report(session, period_start, period_end)
get_reconciliation_report(store, period_start, period_end) ==
    LET txns == store.transactions
        in_period == {t \in DOMAIN txns :
                        DateBetween(txns[t].date, period_start, period_end)}
        positive == {t \in in_period : txns[t].amount > 0}
        negative == {t \in in_period : txns[t].amount < 0}
        inflows == Sum([t \in positive |-> txns[t].amount], positive)
        outflows == Sum([t \in negative |-> Abs(txns[t].amount)], negative)
        opening_balance == 0
        closing_balance == opening_balance + inflows - outflows
    IN [ok |-> TRUE, store |-> store,
        ret |-> [period_start |-> isoformat(period_start),
                 period_end |-> isoformat(period_end),
                 opening_balance |-> opening_balance,
                 inflows |-> inflows,
                 outflows |-> outflows,
                 closing_balance |-> closing_balance,
                 transaction_count |-> Cardinality(in_period)]]

----------------------------------------------------------------------------
(* views/reports.py, views/dashboard.py: each report in its unit of work *)

\* ReportsView.show_cashflow
ShowCashflow(start, end) == session_scope(get_cashflow_by_month(Store, start, end))

\* ReportsView.show_category
ShowCategory(start, end) == session_scope(get_category_breakdown(Store, start, end))

\* ReportsView.show_balances
ShowBalances == session_scope(get_account_balances(Store))

\* ReportsView.show_reconciliation
ShowReconciliation(start, end) ==
    session_scope(get_reconciliation_report(Store, start, end))

\* DashboardView.refresh: the count of uncategorized transactions and the
\* balances, read in one unit of work
DashboardRefresh ==
    LET uncat == get_uncategorized_count(Store)
        balances == get_account_balances(uncat.store)
    IN session_scope([ok |-> uncat.ok /\ balances.ok, store |-> balances.store,
                      ret |-> <<uncat.ret, balances.ret>>])

----------------------------------------------------------------------------
(* The ledger: import, rule authoring and application, manual override and
   posting generation, each call one committed unit of work. *)

\* the rule of the scenario: pattern "wa" categorizes as Groceries
LedgerRules == {Rule(<<"w", "A">>, 1, <<>>, <<>>, 100, TRUE)}

\* the edits one save writes: one pending (row, category data) pair
PendingEdits == {<< <<row, data>> >> : row \in 0..(MaxTxns - 1), data \in ComboData}

Next ==
    \/ \E job \in ImportJobs : Import(job[1], job[2])
    \/ \E r \in LedgerRules : AuthorRule(r)
    \/ ApplyRules
    \/ \E pending \in PendingEdits : SaveChanges(pending)
    \/ \E limit \in Limits : GeneratePostings(limit)
    \/ \E t \in 1..MaxTxns : GenerateOne(t)

Spec == Init /\ [][Next]_vars

----------------------------------------------------------------------------
(* The rules engine on rule sets with priorities, ties and inactive rules. *)

\* the rules that are authored: two that tie in priority with different
\* categories, one of a higher priority value, one whose pattern matches
\* only "wa", and an inactive one
EngineRules ==
    { Rule(<<>>, 1, <<>>, <<>>, 10, TRUE),
      Rule(<<>>, 2, <<>>, <<>>, 10, TRUE),
      Rule(<<>>, 1, <<>>, <<>>, 100, TRUE),
      Rule(<<"w", "A">>, 2, <<>>, <<>>, 10, TRUE),
      Rule(<<>>, 2, <<>>, <<>>, 10, FALSE) }

\* the source files the rules are run on: two rows of different dates, one
\* that the pattern "wa" matches and one that it does not
EngineFiles == { <<RowWalmart>>, <<RowSalary>> }

\* limit: int = 1000
DRY_RUN_LIMIT == 1000

DryRunLimits == {1, DRY_RUN_LIMIT}

\* RulesView.dry_run: one unit of work around dry_run_matches, which only
\* reads
DryRun(limit) ==
    \E rule_order \in ActiveRulesByPriority(rules) :
    \E txn_query \in UncategorizedByDateDesc(transactions) :
        session_scope([ok |-> TRUE, store |-> Store,
                       ret |-> dry_run_matches(Store, limit, txn_query, rule_order)])

NextRules ==
    \/ \E rows \in EngineFiles : Import(rows, "Checking")
    \/ \E r \in EngineRules : AuthorRule(r)
    \/ \E limit \in DryRunLimits : DryRun(limit)
    \/ ApplyRules
    \/ \E pending \in PendingEdits : SaveChanges(pending)

SpecRules == Init /\ [][NextRules]_vars

----------------------------------------------------------------------------
(* The match predicate on one rule and one transaction drawn from bounded
   sets. *)

Alphabet == {"w", "W", "a"}

Texts == UNION {[1..n -> Alphabet] : n \in 0..MaxLen}

MatchAmounts == {-100, 0, 100}

MatchRules ==
    {Rule(p, 1, mn, mx, 100, act) :
        p \in Texts, mn \in {<<>>, <<0>>}, mx \in {<<>>, <<0>>, <<100>>},
        act \in BOOLEAN}

InitMatch ==
    LET s == seed_minimal(EmptyStore) IN
    /\ accounts = s.accounts
    /\ categories = s.categories
    /\ postings = s.postings
    /\ period_closures = s.period_closures
    /\ InitView
    /\ \E r \in MatchRules : rules = <<r>>
    /\ \E d \in Texts, a \in MatchAmounts :
          transactions = << [date |-> <<2024, 3, 5>>, description |-> d,
                             amount |-> a, source_account_id |-> 1,
                             category_id |-> 0] >>

NextMatch == ApplyRules

SpecMatch == InitMatch /\ [][NextMatch]_vars

----------------------------------------------------------------------------
(* The reports on a ledger of imported, categorized and posted
   transactions. *)

RowRent ==
    [date |-> IsoDate(2024, 4, 15), description |-> <<"r">>,
     amount |-> Number(-35000)]

\* the source files of the reports: an outflow and a zero amount in March,
\* an inflow of 1000.00 and an outflow of 350.00 in April
ReportFiles == { <<RowWalmart>>, <<RowZero>>, <<RowSalary>>, <<RowRent>> }

\* the date ranges the reports are asked for: March, April, a range whose
\* two ends are dates of transactions, and the year
Periods ==
    { << <<2024, 3, 1>>, <<2024, 3, 31>> >>,
      << <<2024, 4, 1>>, <<2024, 4, 30>> >>,
      << <<2024, 3, 5>>, <<2024, 4, 1>> >>,
      << <<2024, 1, 1>>, <<2024, 12, 31>> >> }

NextReports ==
    \/ \E rows \in ReportFiles : Import(rows, "Checking")
    \/ \E pending \in PendingEdits : SaveChanges(pending)
    \/ \E limit \in Limits : GeneratePostings(limit)
    \/ \E p \in Periods : ShowCashflow(p[1], p[2])
    \/ \E p \in Periods : ShowCategory(p[1], p[2])
    \/ ShowBalances
    \/ \E p \in Periods : ShowReconciliation(p[1], p[2])
    \/ DashboardRefresh

SpecReports == Init /\ [][NextReports]_vars

----------------------------------------------------------------------------
(* The units of work that can fail after they changed the session's view of
   the store: the imports, among them those that meet an amount that is no
   number, and the posting generation. *)

\* the imports that are run: those of the ledger, and single rows into
\* the second bank account
UnitJobs == ImportJobs \cup {<<rows, "Savings">> : rows \in ReportFiles}

NextUnits ==
    \/ \E job \in UnitJobs : Import(job[1], job[2])
    \/ \E limit \in Limits : GeneratePostings(limit)
    \/ \E t \in 1..MaxTxns : GenerateOne(t)

SpecUnits == Init /\ [][NextUnits]_vars

----------------------------------------------------------------------------
(* The posting generator on stores that lack generic accounts: the arguments
   of generate_postings_for_transaction and generate_all_postings drawn from
   the stores the schema admits. *)

\* the seeded accounts but for the accounts named in `missing`
SeededWithout(missing) ==
    LET Kept(a) == a.name \notin missing IN SelectSeq(SeedAccounts, Kept)

\* the transactions of the store: up to MaxTxns rows booked on "Checking",
\* each without a category or with the first one
FallbackTransactions(accts) ==
    LET rowseqs == UNION {[1..n -> {RowWalmart, RowZero, RowSalary}] : n \in 1..MaxTxns}
        imported(rows) ==
            import_rows(rows, AccountByName(accts, "Checking"), <<>>, 0).transactions
    IN UNION { {[t \in DOMAIN imported(rows) |->
                    [imported(rows)[t] EXCEPT !.category_id = cat[t]]] :
                 cat \in [DOMAIN imported(rows) -> {0, 1}]} : rows \in rowseqs }

\* two postings of transaction t written by hand: source account against
\* the account cp
HandPostings(txns, t, cp) ==
    IF txns[t].amount < 0
    THEN SetToBag({Posting(t, txns[t].source_account_id, 0, Abs(txns[t].amount))})
         (+) SetToBag({Posting(t, cp, Abs(txns[t].amount), 0)})
    ELSE SetToBag({Posting(t, txns[t].source_account_id, Abs(txns[t].amount), 0)})
         (+) SetToBag({Posting(t, cp, 0, Abs(txns[t].amount))})

\* the postings of the store: the transactions of `posted` have two
\* postings against "Transfers", the others none
RECURSIVE FallbackPostings(_, _, _)
FallbackPostings(accts, txns, posted) ==
    IF posted = {} THEN EmptyBag
    ELSE LET t == CHOOSE u \in posted : TRUE
         IN HandPostings(txns, t, AccountByName(accts, "Transfers"))
            (+) FallbackPostings(accts, txns, posted \ {t})

InitFallback ==
    \E missing \in SUBSET {"Income", "Expenses"} :
    \E txns \in FallbackTransactions(SeededWithout(missing)) :
    \E posted \in SUBSET DOMAIN txns :
        /\ accounts = SeededWithout(missing)
        /\ categories = seed_minimal(EmptyStore).categories
        /\ transactions = txns
        /\ postings = FallbackPostings(accounts, txns, posted)
        /\ rules = <<>>
        /\ period_closures = <<>>
        /\ InitView

NextFallback ==
    \/ \E limit \in Limits : GeneratePostings(limit)
    \/ \E t \in 1..MaxTxns : GenerateOne(t)

SpecFallback == InitFallback /\ [][NextFallback]_vars

----------------------------------------------------------------------------
(* models/models.py, PeriodClosure: the ledger with closed periods. *)

\* a PeriodClosure row for the period is added in one unit of work; its
\* closed_at timestamp, which nothing reads, is left out.  No handler of the
\* application adds the row: it is written through the model class.
ClosePeriod(period_start, period_end) ==
    session_scope(
        [ok |-> TRUE,
         store |-> [Store EXCEPT !.period_closures =
                       Append(@, [period_start |-> period_start,
                                  period_end |-> period_end])],
         ret |-> 0])

\* the periods that are closed: March and April 2024
ClosedPeriods ==
    { << <<2024, 3, 1>>, <<2024, 3, 31>> >>,
      << <<2024, 4, 1>>, <<2024, 4, 30>> >> }

NextClosure ==
    \/ \E rows \in EngineFiles : Import(rows, "Checking")
    \/ \E p \in ClosedPeriods : ClosePeriod(p[1], p[2])
    \/ \E r \in LedgerRules : AuthorRule(r)
    \/ ApplyRules
    \/ \E pending \in PendingEdits : SaveChanges(pending)
    \/ \E limit \in Limits : GeneratePostings(limit)
    \/ \E t \in 1..MaxTxns : GenerateOne(t)

SpecClosure == Init /\ [][NextClosure]_vars

----------------------------------------------------------------------------
(* Import, manual override and posting generation on source accounts that
   are new or bear the name of a counterpart account. *)

\* the source files and their source account: the name of a category
\* account, the name of a seeded fallback account, a new name
AccountJobs ==
    { << <<RowWalmart>>, "Expense:Groceries" >>,
      << <<RowSalary>>, "Income" >>,
      << <<RowSalary>>, "Visa" >> }

NextAccounts ==
    \/ \E job \in AccountJobs : Import(job[1], job[2])
    \/ \E pending \in PendingEdits : SaveChanges(pending)
    \/ \E limit \in Limits : GeneratePostings(limit)
    \/ \E t \in 1..MaxTxns : GenerateOne(t)

SpecAccounts == Init /\ [][NextAccounts]_vars

----------------------------------------------------------------------------
(* The four writers of the ledger side by side: import, rule application,
   manual override and posting generation on one source account. *)

NextOwners ==
    \/ \E rows \in EngineFiles : Import(rows, "Checking")
    \/ \E r \in LedgerRules : AuthorRule(r)
    \/ ApplyRules
    \/ \E pending \in PendingEdits : SaveChanges(pending)
    \/ \E limit \in Limits : GeneratePostings(limit)
    \/ \E t \in 1..MaxTxns : GenerateOne(t)

SpecOwners == Init /\ [][NextOwners]_vars

----------------------------------------------------------------------------
(* Posting generation called again and again on a ledger that no import
   extends: the seeded accounts, transactions with and without a category,
   some of them posted already. *)

InitDrain ==
    \E txns \in FallbackTransactions(SeedAccounts) :
    \E posted \in SUBSET DOMAIN txns :
        /\ accounts = SeedAccounts
        /\ categories = seed_minimal(EmptyStore).categories
        /\ transactions = txns
        /\ postings = FallbackPostings(accounts, txns, posted)
        /\ rules = <<>>
        /\ period_closures = <<>>
        /\ InitView

NextDrain == \E limit \in Limits : GeneratePostings(limit)

\* the caller keeps calling: a call that would change the store is
\* eventually made
SpecDrain == InitDrain /\ [][NextDrain]_vars /\ WF_vars(NextDrain)

----------------------------------------------------------------------------
(* db/session.py, services/posting_generator.py: the session inside one unit
   of work.  sessionmaker(autoflush=False): the rows that session.add()
   hands to the session stay pending until session.flush() or the commit
   writes them; a query, and the DELETE of Query.delete(), see the flushed
   rows only.  A session is [store, pending]: the flushed rows as the unit
   sees them and the pending postings. *)

\* the session at the start of a unit of work
begin(store) == [store |-> store, pending |-> EmptyBag]

\* session.flush(): the pending postings are written
flush(sess) ==
    [store |-> [sess.store EXCEPT !.postings = @ (+) sess.pending],
     pending |-> EmptyBag]

\* generate_postings_for_transaction(session, transaction) on a session that
\* may hold pending postings: [ok, session, ret].  The delete and the account
\* lookups act on the flushed rows; session.flush() runs only after a new
\* category account was added, which is after the delete; the two new
\* postings are added and stay pending.
generate_postings_in_session(sess, t) ==
    LET r == generate_postings_for_transaction(sess.store, t)
        cleared == DeletePostings(sess.store.postings, t)
        deleted == [store |-> [sess.store EXCEPT !.postings = cleared],
                    pending |-> sess.pending]
        flushed == IF r.store.accounts # sess.store.accounts
                   THEN flush(deleted) ELSE deleted
    IN IF ~r.ok
       THEN [ok |-> FALSE, session |-> deleted, ret |-> 0]
       ELSE [ok |-> TRUE,
             session |-> [store |-> [flushed.store EXCEPT
                                        !.accounts = r.store.accounts],
                          pending |-> flushed.pending
                                      (+) (r.store.postings (-) cleared)],
             ret |-> 2]

\* session.commit() at the end of session_scope: flush, then commit
commit(sess) == flush(sess).store

\* generate_postings_for_transaction called twice for the same transaction in
\* one unit of work: [ok, store, ret]
generate_twice(store, t) ==
    LET first == generate_postings_in_session(begin(store), t)
        second == generate_postings_in_session(first.session, t)
    IN IF ~first.ok
       THEN [ok |-> FALSE, store |-> commit(first.session), ret |-> 0]
       ELSE [ok |-> second.ok, store |-> commit(second.session),
             ret |-> first.ret + second.ret]

\* a caller of the service that generates twice within its unit of work
GenerateTwice(t) ==
    /\ t \in DOMAIN transactions
    /\ session_scope(generate_twice(Store, t))

NextSession ==
    \/ \E rows \in EngineFiles : Import(rows, "Checking")
    \/ \E pending \in PendingEdits : SaveChanges(pending)
    \/ \E t \in 1..MaxTxns : GenerateOne(t)
    \/ \E t \in 1..MaxTxns : GenerateTwice(t)

SpecSession == Init /\ [][NextSession]_vars

----------------------------------------------------------------------------
(* The transactions view beside the import wizard: the table is refreshed
   only by its button and after a save, so an import can come between an
   edit and the save. *)

NextView ==
    \/ \E rows \in EngineFiles : Import(rows, "Checking")
    \/ refresh
    \/ \E row \in 0..(MaxTxns - 1), data \in ComboData : _on_category_changed(row, data)
    \/ save_changes

SpecView == Init /\ [][NextView]_vars

----------------------------------------------------------------------------
(* Properties of the posting generator. *)

\* the sum of n over the rows of the bag B, each row counted with its copies
RECURSIVE TotalDebit(_)
TotalDebit(B) ==
    IF DOMAIN B = {} THEN 0
    ELSE LET p == CHOOSE q \in DOMAIN B : TRUE
         IN p.debit * B[p] + TotalDebit([q \in DOMAIN B \ {p} |-> B[q]])

RECURSIVE TotalCredit(_)
TotalCredit(B) ==
    IF DOMAIN B = {} THEN 0
    ELSE LET p == CHOOSE q \in DOMAIN B : TRUE
         IN p.credit * B[p] + TotalCredit([q \in DOMAIN B \ {p} |-> B[q]])

Posted(t) == PostingsOf(postings, t) # EmptyBag

\* the account of the name, for reading a state
HasAccount(name) == AccountByName(accounts, name) # 0

\* C1: every transaction that has postings has debits and credits that both
\* sum to the absolute value of its amount.
C1_BalanceInvariant ==
    \A t \in DOMAIN transactions :
        Posted(t) =>
            LET ps == PostingsOf(postings, t)
                a == transactions[t].amount
            IN /\ TotalDebit(ps) = TotalCredit(ps)
               /\ TotalDebit(ps) = IF a < 0 THEN -a ELSE a

\* a categorized outflow posted against its category account
C1_Witness ==
    \E t \in DOMAIN transactions :
        /\ transactions[t].amount < 0
        /\ transactions[t].category_id # 0
        /\ HasAccount("Expense:Groceries")
        /\ \E p \in DOMAIN postings :
              /\ p.transaction_id = t
              /\ p.account_id = AccountByName(accounts, "Expense:Groceries")
              /\ p.debit > 0

\* C2: generating the postings of a transaction a second time, right after a
\* first committed generation, leaves the same store as the first: the same
\* two postings and the same accounts.
C2_GenerateTwiceSameAsOnce ==
    \A t \in DOMAIN transactions :
        LET once == generate_postings_for_transaction(Store, t)
            twice == generate_postings_for_transaction(once.store, t)
        IN (once.ok /\ StoreAccepts(once.store)) =>
              /\ twice.ok /\ StoreAccepts(twice.store)
              /\ PostingsOf(twice.store.postings, t)
                    = PostingsOf(once.store.postings, t)
              /\ BagCardinality(PostingsOf(twice.store.postings, t)) = 2
              /\ twice.store = once.store

\* a transaction posted before it was categorized, whose category account
\* the first of the two generations has to create
C2_Witness ==
    \E t \in DOMAIN transactions :
        /\ Posted(t)
        /\ transactions[t].category_id # 0
        /\ transactions[t].amount >= 0
        /\ ~HasAccount("Income:Groceries")

\* C3: every posting has debit >= 0 and credit >= 0 and exactly one of the
\* two is non-zero, also when the transaction's amount is 0.
C3_ExactlyOneNonZero ==
    \A p \in DOMAIN postings :
        /\ p.debit >= 0
        /\ p.credit >= 0
        /\ (p.debit # 0) # (p.credit # 0)

\* C4: every transaction has no posting or exactly two, and a generation
\* returns 2 and leaves the transaction with exactly two postings whatever
\* it had before, the postings of the other transactions untouched.
C4_ZeroOrTwoPostings ==
    \A t \in DOMAIN transactions :
        /\ BagCardinality(PostingsOf(postings, t)) \in {0, 2}
        /\ LET r == generate_postings_for_transaction(Store, t)
           IN r.ok =>
                /\ r.ret = 2
                /\ BagCardinality(PostingsOf(r.store.postings, t)) = 2
                /\ \A u \in DOMAIN transactions \ {t} :
                      PostingsOf(r.store.postings, u) = PostingsOf(postings, u)

\* one transaction with two postings beside one with none
C4_Witness ==
    \E t, u \in DOMAIN transactions :
        /\ BagCardinality(PostingsOf(postings, t)) = 2
        /\ BagCardinality(PostingsOf(postings, u)) = 0

\* the two postings of transaction t with counterpart account cp, as the
\* posting policy states them
PolicyPostings(t, cp) ==
    LET a == transactions[t].amount
        src == transactions[t].source_account_id
    IN IF a < 0
       THEN SetToBag({[transaction_id |-> t, account_id |-> src,
                       debit |-> 0, credit |-> -a]})
            (+) SetToBag({[transaction_id |-> t, account_id |-> cp,
                           debit |-> -a, credit |-> 0]})
       ELSE SetToBag({[transaction_id |-> t, account_id |-> src,
                       debit |-> a, credit |-> 0]})
            (+) SetToBag({[transaction_id |-> t, account_id |-> cp,
                           debit |-> 0, credit |-> a]})

\* C5: the postings of an outflow credit the source account and debit the
\* counterpart by |amount|; those of an inflow (amount >= 0) debit the
\* source account and credit the counterpart by the amount.
C5_PostingDirection ==
    \A t \in DOMAIN transactions :
        Posted(t) =>
            \E cp \in DOMAIN accounts :
                PostingsOf(postings, t) = PolicyPostings(t, cp)

\* an outflow and an inflow of a positive amount, both posted
C5_Witness ==
    \E t, u \in DOMAIN transactions :
        /\ transactions[t].amount < 0 /\ Posted(t)
        /\ transactions[u].amount > 0 /\ Posted(u)

\* the name and the type the counterpart account of transaction t is to have
CounterpartName(t) ==
    LET txn == transactions[t] IN
    IF txn.category_id # 0
    THEN (IF txn.amount < 0 THEN "Expense:" ELSE "Income:")
            \o categories[txn.category_id].name
    ELSE (IF txn.amount < 0 THEN "Expenses" ELSE "Income")

CounterpartType(t) == IF transactions[t].amount < 0 THEN "expense" ELSE "income"

\* C6: a generation posts the counterpart against the account named
\* Expense:<category> or Income:<category> (Expenses or Income when the
\* transaction has no category), and for a categorized transaction that
\* account has the type expense or income.
C6_CounterpartAccount ==
    \A t \in DOMAIN transactions :
        LET r == generate_postings_for_transaction(Store, t)
        IN r.ok =>
            \E cp \in DOMAIN r.store.accounts :
                /\ PostingsOf(r.store.postings, t) = PolicyPostings(t, cp)
                /\ r.store.accounts[cp].name = CounterpartName(t)
                /\ transactions[t].category_id # 0 =>
                      r.store.accounts[cp].type = CounterpartType(t)


----------------------------------------------------------------------------
(* Properties of the rules engine. *)

\* the rule matches the transaction, read off the rule's fields
Matches(r, txn) ==
    /\ r.active
    /\ re_search(r.pattern, txn.description)
    /\ r.amount_min = <<>> \/ txn.amount >= r.amount_min[1]
    /\ r.amount_max = <<>> \/ txn.amount <= r.amount_max[1]

\* the transactions dry_run_matches examines for one result of its query
Examined(limit, txn_query) ==
    {txn_query[k] : k \in 1..Min(limit, Len(txn_query))}

\* C7: for every rule set, ties in priority included, the category the dry
\* run predicts for a transaction is the category apply_rules then persists,
\* and a transaction the dry run examined without reporting it stays
\* uncategorized.
C7_DryRunEqualsApply ==
    \A limit \in DryRunLimits :
    \A dry_txns \in UncategorizedByDateDesc(transactions) :
    \A dry_rules \in ActiveRulesByPriority(rules) :
    \A apply_txns \in UncategorizedByDateAsc(transactions) :
    \A apply_rule_order \in ActiveRulesByPriority(rules) :
        LET matches == dry_run_matches(Store, limit, dry_txns, dry_rules)
            after == apply_rules(Store, apply_txns, apply_rule_order).store.transactions
        IN /\ \A k \in DOMAIN matches :
                after[matches[k].transaction_id].category_id = matches[k].category_id
           /\ \A t \in Examined(limit, dry_txns) :
                (\A k \in DOMAIN matches : matches[k].transaction_id # t)
                    => after[t].category_id = 0

\* the active rules that match the transaction and have no matching active
\* rule of a strictly lower priority value above them
Unbeaten(txn) ==
    {r \in DOMAIN rules :
        /\ Matches(rules[r], txn)
        /\ \A q \in DOMAIN rules :
              Matches(rules[q], txn) => rules[r].priority <= rules[q].priority}

\* C8: when two active rules match an uncategorized transaction and one has
\* the strictly lower priority value, the other never decides: apply_rules
\* assigns, and dry_run_matches reports, the category of a matching rule
\* that no matching rule precedes in priority, in whatever order the rules
\* are stored.
C8_LowerPriorityWins ==
    \A txn_query \in UncategorizedByDateAsc(transactions) :
    \A dry_txns \in UncategorizedByDateDesc(transactions) :
    \A rule_order \in ActiveRulesByPriority(rules) :
        LET after == apply_rules(Store, txn_query, rule_order).store.transactions
            matches == dry_run_matches(Store, DRY_RUN_LIMIT, dry_txns, rule_order)
        IN \A t \in DOMAIN transactions :
            (transactions[t].category_id = 0 /\ Unbeaten(transactions[t]) # {}) =>
                /\ after[t].category_id \in
                      {rules[r].category_id : r \in Unbeaten(transactions[t])}
                /\ \E k \in DOMAIN matches :
                      /\ matches[k].transaction_id = t
                      /\ matches[k].rule_id \in Unbeaten(transactions[t])
                      /\ matches[k].category_id = rules[matches[k].rule_id].category_id

\* the rule of the higher priority value is stored first, both rules match
\* a transaction, and the transaction has the category of the second
C8_Witness ==
    /\ Len(rules) = 2
    /\ rules[1].priority > rules[2].priority
    /\ rules[1].category_id # rules[2].category_id
    /\ \E t \in DOMAIN transactions :
          /\ Matches(rules[1], transactions[t])
          /\ Matches(rules[2], transactions[t])
          /\ transactions[t].category_id = rules[2].category_id

\* C9: apply_rules leaves every transaction that has a category as it is,
\* and a second apply_rules with the same rules changes nothing and
\* returns 0.
C9_ApplyIdempotent ==
    \A txn_query \in UncategorizedByDateAsc(transactions) :
    \A rule_order \in ActiveRulesByPriority(rules) :
        LET first == apply_rules(Store, txn_query, rule_order)
        IN /\ \A t \in DOMAIN transactions :
                transactions[t].category_id # 0 =>
                    first.store.transactions[t] = transactions[t]
           /\ \A again_txns \in UncategorizedByDateAsc(first.store.transactions) :
              \A again_rules \in ActiveRulesByPriority(first.store.rules) :
                LET second == apply_rules(first.store, again_txns, again_rules)
                IN second.ret = 0 /\ second.store = first.store

\* a transaction the user categorized by hand although an active rule
\* matches it with another category, beside one that apply_rules categorized
C9_Witness ==
    \E t, u \in DOMAIN transactions :
        /\ transactions[t].category_id = 1
        /\ \A r \in DOMAIN rules :
              Matches(rules[r], transactions[t]) => rules[r].category_id = 2
        /\ \E r \in DOMAIN rules : Matches(rules[r], transactions[t])
        /\ transactions[u].category_id = 2

\* the two characters are the same letter, whatever their case
SameLetter(a, b) ==
    \/ a = b
    \/ {a, b} = {"w", "W"}
    \/ {a, b} = {"a", "A"}
    \/ {a, b} = {"r", "R"}

\* the pattern occurs somewhere in the text, ignoring case
Found(pattern, text) ==
    \E i \in 0..(Len(text) - Len(pattern)) :
        \A k \in 1..Len(pattern) : SameLetter(text[i + k], pattern[k])

\* C10: a rule matches (description, amount) exactly when it is active, its
\* pattern occurs in the description ignoring case, and the signed amount is
\* within the bounds that are set, both inclusive; apply_rules categorizes
\* the transaction only then.
C10_MatchPredicate ==
    \A r \in DOMAIN rules :
    \A t \in DOMAIN transactions :
        LET rule == rules[r]
            txn == transactions[t]
            holds == /\ rule.active
                     /\ Found(rule.pattern, txn.description)
                     /\ rule.amount_min # <<>> => txn.amount >= rule.amount_min[1]
                     /\ rule.amount_max # <<>> => txn.amount <= rule.amount_max[1]
        IN /\ _rule_matches(rule, txn.description, txn.amount) <=> holds
           /\ txn.category_id # 0 => holds

\* a transaction categorized by a rule whose pattern differs from the
\* description in case and whose two bounds both equal the amount
C10_Witness ==
    /\ Len(rules) = 1 /\ Len(transactions) = 1
    /\ rules[1].amount_min = <<0>> /\ rules[1].amount_max = <<0>>
    /\ transactions[1].amount = 0
    /\ rules[1].pattern = <<"w", "a">>
    /\ transactions[1].description = <<"W", "a">>
    /\ transactions[1].category_id # 0

\* the batch sizes apply_rules is called with
BatchSizes == {1, 2, BATCH_SIZE}

\* the uncategorized transactions other than t that the most-recent-first
\* order may or must put before t
DatedAfter(t, strictly) ==
    {u \in DOMAIN transactions :
        /\ u # t
        /\ transactions[u].category_id = 0
        /\ DateLE(transactions[t].date, transactions[u].date)
        /\ strictly => transactions[u].date # transactions[t].date}

\* C24 (effect of the two rule entry points): dry_run_matches reports only
\* uncategorized transactions that are among the `limit` most recent ones,
\* and every such transaction that an active rule matches; apply_rules, for
\* every batch size, changes nothing but the category of transactions that
\* had none, gives a category to exactly those that an active rule matches,
\* and returns their number; neither changes a rule.
C24_RuleEntryPoints ==
    /\ \A limit \in DryRunLimits :
       \A dry_txns \in UncategorizedByDateDesc(transactions) :
       \A rule_order \in ActiveRulesByPriority(rules) :
          LET matches == dry_run_matches(Store, limit, dry_txns, rule_order) IN
          /\ Len(matches) <= limit
          /\ \A k \in DOMAIN matches :
                /\ matches[k].transaction_id \in DOMAIN transactions
                /\ transactions[matches[k].transaction_id].category_id = 0
                /\ Cardinality(DatedAfter(matches[k].transaction_id, TRUE)) < limit
          /\ \A t \in DOMAIN transactions :
                (/\ transactions[t].category_id = 0
                 /\ Cardinality(DatedAfter(t, FALSE)) < limit
                 /\ \E r \in DOMAIN rules : Matches(rules[r], transactions[t]))
                    => \E k \in DOMAIN matches : matches[k].transaction_id = t
    /\ \A batch_size \in BatchSizes :
       \A txn_query \in UncategorizedByDateAsc(transactions) :
       \A rule_order \in ActiveRulesByPriority(rules) :
          LET run == apply_rules_yield_per(Store, batch_size, txn_query, rule_order)
              after == run.store.transactions
          IN /\ run.ok
             /\ run.store = [Store EXCEPT !.transactions = after]
             /\ DOMAIN after = DOMAIN transactions
             /\ \A t \in DOMAIN transactions :
                   /\ after[t] = [transactions[t] EXCEPT
                                     !.category_id = after[t].category_id]
                   /\ transactions[t].category_id # 0 =>
                         after[t].category_id = transactions[t].category_id
                   /\ transactions[t].category_id = 0 =>
                         IF \E r \in DOMAIN rules : Matches(rules[r], transactions[t])
                         THEN \E r \in DOMAIN rules :
                                 /\ Matches(rules[r], transactions[t])
                                 /\ after[t].category_id = rules[r].category_id
                         ELSE after[t].category_id = 0
             /\ run.ret = Cardinality({t \in DOMAIN transactions :
                                /\ transactions[t].category_id = 0
                                /\ after[t].category_id # 0})

\* after apply_rules: one transaction has the category of the only rule
\* that matches it and the other, which no rule matches, has none
C24_Witness ==
    /\ Len(transactions) = 2
    /\ \E t, u \in DOMAIN transactions :
          /\ transactions[t].category_id # 0
          /\ \E r \in DOMAIN rules : Matches(rules[r], transactions[t])
          /\ \A r \in DOMAIN rules :
                Matches(rules[r], transactions[t]) =>
                    rules[r].category_id = transactions[t].category_id
          /\ transactions[u].category_id = 0
          /\ \A r \in DOMAIN rules : ~Matches(rules[r], transactions[u])

----------------------------------------------------------------------------
(* Properties of the import adapter. *)

\* the date cell is a calendar date written in one of the two formats
GoodDate(cell) ==
    /\ Len(cell.f) = 3
    /\ \/ cell.sep = "-" /\ ValidDate(cell.f[1], cell.f[2], cell.f[3])
       \/ cell.sep = "/" /\ ValidDate(cell.f[3], cell.f[1], cell.f[2])

\* the rows of the source whose date is good
GoodDateRows(rows) ==
    LET Good(row) == GoodDate(row.date) IN SelectSeq(rows, Good)

\* the transaction is the one the row describes
FromRow(txn, row) ==
    /\ txn.description = row.description
    /\ txn.amount = row.amount.cents
    /\ txn.date = IF row.date.sep = "-"
                  THEN <<row.date.f[1], row.date.f[2], row.date.f[3]>>
                  ELSE <<row.date.f[3], row.date.f[1], row.date.f[2]>>
    /\ txn.category_id = 0

\* C11: an import of a source whose rows are valid but for unparseable
\* dates succeeds, returns the number of rows whose date parsed and adds
\* exactly those rows as transactions, in their order, none for a row whose
\* date did not parse.
C11_SkipsBadDates ==
    \A job \in UnitJobs :
        LET rows == job[1]
            good == GoodDateRows(rows)
            r == import_transactions(Store, rows, job[2])
            before == Len(transactions)
        IN (\A i \in DOMAIN good : good[i].amount.num) =>
              /\ r.ok
              /\ commit_or_rollback(r) = r.store
              /\ r.ret = Len(good)
              /\ Len(r.store.transactions) = before + Len(good)
              /\ SubSeq(r.store.transactions, 1, before) = transactions
              /\ \A i \in DOMAIN good :
                    FromRow(r.store.transactions[before + i], good[i])

\* the store after the import of the source of three rows whose second row
\* has a date that does not parse: its first and third row and nothing else
C11_Witness ==
    /\ Len(transactions) = 2
    /\ FromRow(transactions[1], RowWalmart)
    /\ FromRow(transactions[2], RowZero)
    /\ \A t \in DOMAIN transactions : transactions[t].amount # RowBadDate.amount.cents

\* some row of the source has a good date and an amount that is no number
HasBadAmount(rows) ==
    \E i \in DOMAIN rows : GoodDate(rows[i].date) /\ ~rows[i].amount.num

C13_SkipsBadAmounts ==
    \A job \in UnitJobs :
        LET rows == job[1]
            Valid(row) == GoodDate(row.date) /\ row.amount.num
            valid == SelectSeq(rows, Valid)
            r == import_transactions(Store, rows, job[2])
            after == commit_or_rollback(r)
        IN /\ r.ok
           /\ r.ret = Len(valid)
           /\ Len(after.transactions) = Len(transactions) + Len(valid)

\* C14: a second import of the same source with the same mapping adds the
\* rows a second time: each of the two imports returns the number n of valid
\* rows and the store then holds 2n transactions more, the second n equal
\* to the first n.
C14_NoDeduplication ==
    \A job \in UnitJobs :
        LET first == import_transactions(Store, job[1], job[2])
            second == import_transactions(commit_or_rollback(first), job[1], job[2])
            n == first.ret
            before == Len(transactions)
            after == commit_or_rollback(second).transactions
        IN first.ok =>
              /\ second.ok
              /\ second.ret = n
              /\ n = Len(GoodDateRows(job[1]))
              /\ Len(after) = before + 2 * n
              /\ \A i \in 1..n : after[before + n + i] = after[before + i]
              /\ commit_or_rollback(second).accounts
                    = commit_or_rollback(first).accounts

\* the store after the same source was imported twice
C14_Witness ==
    /\ Len(transactions) = 2
    /\ transactions[1] = transactions[2]
    /\ FromRow(transactions[1], RowWalmart)

----------------------------------------------------------------------------
(* Properties of the batch generation. *)

\* the transactions that have no posting
WithoutPostings == {t \in DOMAIN transactions : PostingsOf(postings, t) = EmptyBag}

\* the account the posting is booked on is a generic fallback account
OnFallback(p) == accounts[p.account_id].name \in {"Expenses", "Income"}

FallbackName(txn) == IF txn.amount < 0 THEN "Expenses" ELSE "Income"

\* the generation of transaction t needs a generic account that is missing
NeedsMissing(t) ==
    /\ transactions[t].category_id = 0
    /\ \A a \in DOMAIN accounts : accounts[a].name # FallbackName(transactions[t])

\* C16: when an uncategorized transaction needs the account Expenses
\* (amount < 0) or Income (amount >= 0) and no account has that name, the
\* generation fails and its unit of work leaves the committed store as it
\* was: no posting is new, the postings the transaction had are still there
\* although the call had deleted them, and a batch that reaches such a
\* transaction discards the postings it generated for the transactions
\* before it.
C16_MissingFallbackAborts ==
    /\ \A t \in DOMAIN transactions :
          LET r == generate_postings_for_transaction(Store, t)
          IN NeedsMissing(t) =>
                /\ ~r.ok
                /\ Raises(r)
                /\ PostingsOf(r.store.postings, t) = EmptyBag
                /\ commit_or_rollback(r) = Store
    /\ \A limit \in Limits :
       \A query \in Unposted(Store) :
          LET r == generate_all_postings(Store, limit, query)
          IN (\E k \in 1..Len(query) : k <= limit /\ NeedsMissing(query[k])) =>
                /\ ~r.ok
                /\ Raises(r)
                /\ commit_or_rollback(r) = Store

\* a batch that has generated the postings of its first transaction when it
\* fails on its second
C16_Witness ==
    \E query \in Unposted(Store) :
        LET r == generate_all_postings(Store, DEFAULT_LIMIT, query)
        IN /\ Len(query) = 2
           /\ ~NeedsMissing(query[1])
           /\ NeedsMissing(query[2])
           /\ ~r.ok
           /\ BagCardinality(r.store.postings) = BagCardinality(postings) + 2

----------------------------------------------------------------------------
(* Properties of the unit of work. *)

\* the results of the bodies of the units of work that can run on the
\* store: the session's view of the store when the body ends, and whether
\* it ended without an exception
Units ==
    {[ok |-> r.ok, store |-> r.store] :
        r \in {import_transactions(Store, job[1], job[2]) : job \in UnitJobs}}
    \cup {[ok |-> r.ok, store |-> r.store] :
            r \in {generate_all_postings(Store, limit, q) :
                      limit \in Limits, q \in Unposted(Store)}}
    \cup {[ok |-> r.ok, store |-> r.store] :
            r \in {generate_postings_for_transaction(Store, t) :
                      t \in DOMAIN transactions}}

----------------------------------------------------------------------------
(* Properties of the reports. *)

\* the runs of the five reports on the store, for the date ranges asked:
\* whether the report returned, and the session's view of the store then
ReportRuns ==
    {[ok |-> r.ok, store |-> r.store] :
        r \in {get_cashflow_by_month(Store, p[1], p[2]) : p \in Periods}}
    \cup {[ok |-> r.ok, store |-> r.store] :
            r \in {get_category_breakdown(Store, p[1], p[2]) : p \in Periods}}
    \cup {[ok |-> r.ok, store |-> r.store] :
            r \in {get_reconciliation_report(Store, p[1], p[2]) : p \in Periods}}
    \cup {[ok |-> get_account_balances(Store).ok,
           store |-> get_account_balances(Store).store]}
    \cup {[ok |-> get_uncategorized_count(Store).ok,
           store |-> get_uncategorized_count(Store).store]}

\* C18: each of the five reports can be called in every state, also when no
\* transaction has postings: it returns, and it leaves accounts, categories,
\* transactions, postings and rules as they were.
C18_ReportsReadOnly ==
    \A r \in ReportRuns :
        /\ r.ok
        /\ r.store = Store
        /\ commit_or_rollback(r) = Store

\* the date as one number that orders as the calendar does
DayNumber(d) == d[1] * 10000 + d[2] * 100 + d[3]

\* the transaction is dated in the period, both ends included
InPeriod(txn, p) ==
    DayNumber(p[1]) <= DayNumber(txn.date) /\ DayNumber(txn.date) <= DayNumber(p[2])

\* the sum of the positive amounts of the first k transactions that are
\* dated in the period
RECURSIVE Inflows(_, _)
Inflows(k, p) ==
    IF k = 0 THEN 0
    ELSE Inflows(k - 1, p)
         + (IF InPeriod(transactions[k], p) /\ transactions[k].amount > 0
            THEN transactions[k].amount ELSE 0)

\* the sum of the absolute values of their negative amounts
RECURSIVE Outflows(_, _)
Outflows(k, p) ==
    IF k = 0 THEN 0
    ELSE Outflows(k - 1, p)
         + (IF InPeriod(transactions[k], p) /\ transactions[k].amount < 0
            THEN 0 - transactions[k].amount ELSE 0)

\* C19: the reconciliation report of a period has as inflows the sum of the
\* positive amounts and as outflows the sum of the absolute negative amounts
\* of the transactions dated in the period, both ends included, an opening
\* balance of 0, closing = opening + inflows - outflows, and counts every
\* transaction of the period, those of amount 0 too; inflows of 1000.00 and
\* outflows of 350.00 give a closing balance of 650.00.
C19_Reconciliation ==
    \A p \in Periods :
        LET run == get_reconciliation_report(Store, p[1], p[2])
            r == run.ret
        IN /\ run.ok
           /\ r.inflows = Inflows(Len(transactions), p)
           /\ r.outflows = Outflows(Len(transactions), p)
           /\ r.opening_balance = 0
           /\ r.closing_balance = r.opening_balance + r.inflows - r.outflows
           /\ r.transaction_count =
                 Cardinality({t \in DOMAIN transactions : InPeriod(transactions[t], p)})
           /\ (r.inflows = 100000 /\ r.outflows = 35000) => r.closing_balance = 65000

\* the scenario: a period with an inflow of 1000.00 on its first day and an
\* outflow of 350.00
C19_Witness ==
    \E p \in Periods :
        LET r == get_reconciliation_report(Store, p[1], p[2]).ret
        IN /\ \E t \in DOMAIN transactions : transactions[t].date = p[1]
           /\ r.inflows = 100000
           /\ r.outflows = 35000
           /\ r.closing_balance = 65000
           /\ r.transaction_count = 2

\* the postings booked on the account with id a
PostingsOn(a) ==
    [q \in {x \in DOMAIN postings : x.account_id = a} |-> postings[q]]

\* C20: every list get_account_balances can return has exactly one record
\* for each account that has a posting and none for an account without
\* postings, and the balance of a record is the sum of the debits minus the
\* sum of the credits of all postings of its account.
C20_AccountBalances ==
    LET run == get_account_balances(Store) IN
    /\ run.ok
    /\ run.ret # {}
    /\ \A list \in run.ret :
          /\ \A a \in DOMAIN accounts :
                PostingsOn(a) # EmptyBag =>
                    \E i \in DOMAIN list :
                        /\ list[i].account = accounts[a].name
                        /\ list[i].balance =
                              TotalDebit(PostingsOn(a)) - TotalCredit(PostingsOn(a))
                        /\ \A j \in DOMAIN list :
                              list[j].account = list[i].account => j = i
          /\ \A i \in DOMAIN list :
                \E a \in DOMAIN accounts :
                    /\ accounts[a].name = list[i].account
                    /\ PostingsOn(a) # EmptyBag

\* an outflow and an inflow posted: records for the accounts Checking,
\* Expenses and Income, Checking with the net of the two, and no record for
\* Savings
C20_Witness ==
    \E list \in get_account_balances(Store).ret :
        /\ \E i \in DOMAIN list :
              list[i].account = "Checking" /\ list[i].balance = 100000 - 4250
        /\ \E i \in DOMAIN list : list[i].account = "Expenses"
        /\ \E i \in DOMAIN list : list[i].account = "Income"
        /\ \A i \in DOMAIN list : list[i].account # "Savings"

\* the months of the period's year in which a transaction of the period is dated
MonthsOf(p) ==
    {mo \in 1..12 :
        \E t \in DOMAIN transactions :
            InPeriod(transactions[t], p) /\ transactions[t].date[2] = mo}

\* the transactions of the period dated in month mo
InMonth(p, mo) ==
    {t \in DOMAIN transactions :
        InPeriod(transactions[t], p) /\ transactions[t].date[2] = mo}

\* the sum of the amounts of the transactions in S, the positive ones as they are
\* or the negative ones without their sign
RECURSIVE AmountSum(_, _)
AmountSum(S, positive) ==
    IF S = {} THEN 0
    ELSE LET t == CHOOSE x \in S : TRUE
             amount == transactions[t].amount
         IN  (IF positive
              THEN (IF amount > 0 THEN amount ELSE 0)
              ELSE (IF amount < 0 THEN -amount ELSE 0))
             + AmountSum(S \ {t}, positive)

\* C21 (cashflow by month): for a date range within one year, the cashflow
\* report returns one record per calendar month in which a transaction of the
\* range is dated, in ascending month order, with income the sum of the
\* month's positive amounts, expenses the sum of the absolute values of its
\* negative amounts, and net their difference.
C21_CashflowByMonth ==
    \A p \in Periods :
        LET run == get_cashflow_by_month(Store, p[1], p[2]) IN
        /\ run.ok
        /\ Len(run.ret) = Cardinality(MonthsOf(p))
        /\ \A i \in DOMAIN run.ret :
              \E mo \in MonthsOf(p) :
                  /\ i = Cardinality({m2 \in MonthsOf(p) : m2 <= mo})
                  /\ run.ret[i].income = AmountSum(InMonth(p, mo), TRUE)
                  /\ run.ret[i].expenses = AmountSum(InMonth(p, mo), FALSE)
                  /\ run.ret[i].net = run.ret[i].income - run.ret[i].expenses

----------------------------------------------------------------------------
(* Properties of the period closure. *)

\* a PeriodClosure row covers the date
Covered(d) ==
    \E c \in DOMAIN period_closures :
        /\ DateLE(period_closures[c].period_start, d)
        /\ DateLE(d, period_closures[c].period_end)

\* C22 (period closure): once a PeriodClosure row covers a date range, no
\* later operation changes the category or the postings of a transaction
\* dated in the range, and no import adds a transaction dated in the range.
C22_ClosedPeriodLocked ==
    [][/\ \A t \in DOMAIN transactions :
            Covered(transactions[t].date) =>
                /\ transactions'[t].category_id = transactions[t].category_id
                /\ PostingsOf(postings', t) = PostingsOf(postings, t)
       /\ \A t \in DOMAIN transactions' :
            t \notin DOMAIN transactions => ~Covered(transactions'[t].date)]_vars

----------------------------------------------------------------------------
(* Properties of the accounts. *)

\* the accounts `after` are the accounts `before`, unchanged, followed by at
\* most `most` new accounts whose names no account of `before` has
Extends(after, before, most) ==
    /\ Len(before) <= Len(after) /\ Len(after) <= Len(before) + most
    /\ SubSeq(after, 1, Len(before)) = before
    /\ \A i \in DOMAIN after :
          i > Len(before) => AccountByName(before, after[i].name) = 0

\* C23 (unique account names under get-or-create): no two accounts share a
\* name; an import reuses the account of its source account name unchanged
\* and adds one, of type asset, only when no account has the name; posting
\* generation keeps every account and adds only accounts of new names; so no
\* import and no generation is rejected for a duplicate name.
C23_UniqueAccountNames ==
    /\ UniqueNames(accounts)
    /\ \A job \in AccountJobs :
          LET r == import_transactions(Store, job[1], job[2]) IN
          /\ UniqueNames(r.store.accounts)
          /\ IF \E a \in DOMAIN accounts : accounts[a].name = job[2]
             THEN r.store.accounts = accounts
             ELSE r.store.accounts =
                      Append(accounts, [name |-> job[2], type |-> "asset"])
    /\ \A t \in DOMAIN transactions :
          LET r == generate_postings_for_transaction(Store, t) IN
          /\ UniqueNames(r.store.accounts)
          /\ Extends(r.store.accounts, accounts, 1)
    /\ \A limit \in Limits : \A query \in Unposted(Store) :
          LET r == generate_all_postings(Store, limit, query) IN
          /\ UniqueNames(r.store.accounts)
          /\ Extends(r.store.accounts, accounts, Len(transactions))

\* an import made the account 'Visa', a second import of that source account
\* reused it, and generation made the account of a category and posted a
\* second transaction of the category on it
C23_Witness ==
    /\ \E t, u \in DOMAIN transactions :
          /\ t # u
          /\ HasAccount("Visa")
          /\ transactions[t].source_account_id = AccountByName(accounts, "Visa")
          /\ transactions[u].source_account_id = AccountByName(accounts, "Visa")
    /\ HasAccount("Income:Groceries")
    /\ \A t \in DOMAIN transactions :
          \E p \in DOMAIN postings :
              /\ p.transaction_id = t
              /\ p.account_id = AccountByName(accounts, "Income:Groceries")

----------------------------------------------------------------------------
(* Properties of the ownership of records. *)

\* the transactions `after` are the transactions of the state with, at most,
\* other categories
SameButCategory(after) ==
    /\ DOMAIN after = DOMAIN transactions
    /\ \A t \in DOMAIN transactions :
          after[t] = [transactions[t] EXCEPT !.category_id = after[t].category_id]

\* C25 (ownership of records): an import keeps every transaction and every
\* posting as it is and adds transactions without category and without
\* postings; rule application and manual override change nothing but
\* categories; posting generation changes no transaction; and in every step
\* of the ledger the date, description, amount and source account of a
\* transaction stay as they are, a step that adds transactions or changes a
\* category leaves the postings alone, and a step that changes postings
\* leaves the transactions alone.
C25_Ownership ==
    /\ [](/\ \A rows \in EngineFiles :
                LET run == import_transactions(Store, rows, "Checking") IN
                /\ run.store.postings = postings
                /\ run.store.rules = rules
                /\ Len(run.store.transactions) >= Len(transactions)
                /\ \A t \in DOMAIN run.store.transactions :
                      IF t \in DOMAIN transactions
                      THEN run.store.transactions[t] = transactions[t]
                      ELSE /\ run.store.transactions[t].category_id = 0
                           /\ PostingsOf(run.store.postings, t) = EmptyBag
          /\ \A txn_query \in UncategorizedByDateAsc(transactions) :
             \A rule_order \in ActiveRulesByPriority(rules) :
                LET run == apply_rules(Store, txn_query, rule_order) IN
                /\ run.store = [Store EXCEPT !.transactions = run.store.transactions]
                /\ SameButCategory(run.store.transactions)
          /\ \A pending \in PendingEdits :
             \A id_by_row \in TransactionsByDateDesc(transactions) :
                SameButCategory(save_loop(transactions, id_by_row, pending))
          /\ \A limit \in Limits : \A query \in Unposted(Store) :
                generate_all_postings(Store, limit, query).store.transactions
                    = transactions
          /\ \A t \in DOMAIN transactions :
                generate_postings_for_transaction(Store, t).store.transactions
                    = transactions)
    /\ [][/\ Len(transactions') >= Len(transactions)
          /\ \A t \in DOMAIN transactions :
                transactions'[t] = [transactions[t] EXCEPT
                                       !.category_id = transactions'[t].category_id]
          /\ \A t \in DOMAIN transactions' :
                t \notin DOMAIN transactions =>
                    /\ transactions'[t].category_id = 0
                    /\ PostingsOf(postings', t) = EmptyBag
          /\ (\/ Len(transactions') > Len(transactions)
              \/ \E t \in DOMAIN transactions :
                    transactions'[t].category_id # transactions[t].category_id)
                => postings' = postings
          /\ postings' # postings => transactions' = transactions]_vars

\* a transaction that rule application categorized and generation posted,
\* beside one that was imported since and has neither category nor postings
C25_Witness ==
    \E t, u \in DOMAIN transactions :
        /\ t < u
        /\ transactions[t].category_id # 0
        /\ \E r \in DOMAIN rules :
              /\ Matches(rules[r], transactions[t])
              /\ rules[r].category_id = transactions[t].category_id
        /\ PostingsOf(postings, t) # EmptyBag
        /\ transactions[u].category_id = 0
        /\ PostingsOf(postings, u) = EmptyBag

----------------------------------------------------------------------------
(* Properties of repeated generation. *)

\* the transactions without postings in the store
WithoutPostingsIn(store) ==
    {t \in DOMAIN store.transactions : PostingsOf(store.postings, t) = EmptyBag}

\* C26 (draining by repeated invocation): with the fallback accounts present
\* and no import, every call of generate_all_postings, whatever its limit,
\* succeeds and posts at least one of the transactions without postings
\* while there is one, the calls eventually leave no transaction without
\* postings, and from then on a call returns 0 and changes nothing.
C26_Drains ==
    /\ [](\A limit \in Limits : \A query \in Unposted(Store) :
            LET run == generate_all_postings(Store, limit, query) IN
            /\ run.ok /\ StoreAccepts(run.store)
            /\ IF WithoutPostings # {}
               THEN /\ run.ret >= 1
                    /\ WithoutPostingsIn(run.store) \subseteq WithoutPostings
                    /\ WithoutPostingsIn(run.store) # WithoutPostings
               ELSE run.ret = 0 /\ run.store = Store)
    /\ <>[](WithoutPostings = {})

\* two transactions, none posted by hand, both posted by the generator
C26_Witness ==
    /\ Len(transactions) >= 2
    /\ WithoutPostings = {}
    /\ \A p \in DOMAIN postings : accounts[p.account_id].name # "Transfers"

----------------------------------------------------------------------------
(* Properties of the session. *)

\* C27 (replacement within one unit of work): when
\* generate_postings_for_transaction is called twice for the same
\* transaction in one unit of work, with no flush or commit between the
\* calls, the transaction has exactly two postings after the commit.
C27_ReplacesWithinUnit ==
    \A t \in DOMAIN transactions :
        LET run == generate_twice(Store, t) IN
        run.ok => BagCardinality(PostingsOf(commit_or_rollback(run).postings, t)) = 2

\* C28 (distinct accounts per transaction): the two postings of every posted
\* transaction are against two different accounts, whatever the name of the
\* source account the import was given.
C28_DistinctAccounts ==
    \A t \in DOMAIN transactions :
        Posted(t) =>
            Cardinality({p.account_id : p \in DOMAIN PostingsOf(postings, t)}) = 2

\* the sum of the balances of the records of the list
RECURSIVE BalanceSum(_)
BalanceSum(list) ==
    IF list = <<>> THEN 0 ELSE Head(list).balance + BalanceSum(Tail(list))

\* C29 (trial balance): in every committed state that import, rule
\* application, manual override and posting generation reach, the balances
\* that get_account_balances reports sum to zero, and the debits of all
\* postings sum to the same amount as their credits.
C29_TrialBalance ==
    /\ TotalDebit(postings) = TotalCredit(postings)
    /\ get_account_balances(Store).ok
    /\ \A list \in get_account_balances(Store).ret : BalanceSum(list) = 0

\* an outflow filed under a category and an inflow, both posted: three
\* accounts off zero in the report
C29_Witness ==
    /\ \E t, u \in DOMAIN transactions :
          /\ transactions[t].amount < 0 /\ transactions[t].category_id # 0
          /\ transactions[u].amount > 0
          /\ Posted(t) /\ Posted(u)
    /\ \E list \in get_account_balances(Store).ret :
          Cardinality({i \in DOMAIN list : list[i].balance # 0}) >= 3

----------------------------------------------------------------------------
(* Properties of the transactions view. *)

\* the category the pending edits give transaction t: that of the last edit
\* made in a row that showed t, its own category when there is none
RECURSIVE Edited(_, _, _)
Edited(pending, t, category_id) ==
    IF pending = <<>> THEN category_id
    ELSE Edited(Tail(pending), t,
                IF Head(pending)[3] = t
                THEN (IF Head(pending)[2] > 0 THEN Head(pending)[2] ELSE 0)
                ELSE category_id)

\* C30 (manual override targets the edited transaction): save_changes gives
\* every transaction the category of the last pending edit made in a row
\* that showed it when the edit was made, and leaves the others as they are,
\* also when transactions were imported or the table was refreshed since the
\* edit, or transactions share a date.
C30_SaveTargetsEditedRow ==
    \A id_by_row \in TransactionsByDateDesc(transactions) :
        LET after == save_loop(transactions, id_by_row, _pending_category_updates)
        IN \A t \in DOMAIN transactions :
              after[t] = [transactions[t] EXCEPT !.category_id =
                            Edited(_pending_category_updates, t,
                                   transactions[t].category_id)]


====
